---- MODULE Spec2Model ----
(***************************************************************************)
(* A model of the ACK-spoofing tunnel (simpletun_advanced.c, queue.c,      *)
(* process_pkt.c): the circular packet queue, the pacing scheduler         *)
(* io_timeout, and the event loop of main with its backward-congestion     *)
(* state machine.                                                          *)
(*                                                                         *)
(* 32-bit words (TCP sequence and ACK numbers, trigger_seq) are held as    *)
(* the signed integer with the same bit pattern, so that -1 is 0xFFFFFFFF; *)
(* comparisons the C code makes after converting to unsigned int are made  *)
(* with UGe below.                                                         *)
(***************************************************************************)
EXTENDS Integers, Sequences, FiniteSets, TLC

(***************************************************************************)
(* Bounds of the model.  The source runs with 100-slot queues, a high      *)
(* water mark of 20 packets and a pacing interval of 50000 us; the model   *)
(* keeps the code and scales those sizes down.                             *)
(***************************************************************************)
\* slots of Qtap and of Qsock: queue_init(&Q, 100, ...) in main
QSIZE == 3
\* slots of the stand-alone queue
QCapacity == 4
\* Qtap.fullness above which the machine arms (20 in main)
HighWater == 1
\* pacing interval in clock units (T = 50000 us in the source)
T == 1
\* how late, at most, select() reports an expired timeout
MaxLate == 1
\* tap packets counted while in_backward_cc == -3
MaxPktCount == 2
\* largest value in_backward_cc is followed to
MaxRound == 3
\* packets the loop reads from the tap, and from the socket, in one run
MaxTapReads == 4
MaxSockReads == 4
\* packets read from each side in a run that follows their lengths
MaxReadsShort == 2
\* packets read from the socket in a run that follows two episodes
MaxSockReadsLong == 6
\* enqueue_packet calls accepted in the stand-alone queue runs
MaxAccepted == 5
\* resolution of the smoothed fullness: sfullness is held in 1/EwmaScale
EwmaScale == 1

(***************************************************************************)
(* Values.                                                                 *)
(***************************************************************************)
\* a null packet_t pointer
NULL == [null |-> TRUE]
\* what a slot of arr holds before it was ever written (malloc, queue.c:90)
GARBAGE == [garbage |-> TRUE]

\* the packets handed to the stand-alone queue: a buffer and its length
QPkts == { [id |-> 1, length |-> 40], [id |-> 2, length |-> 100], [id |-> 3, length |-> 40] }

VARIABLES
  \* ---- the stand-alone queue and the record of its calls
  Q,          \* a pktqueue_t
  qop,        \* the last call made on Q
  qret,       \* what that call returned
  accepted,   \* packets for which enqueue_packet returned 1, in order
  returned,   \* packets dequeue_packet returned, in order
  \* ---- the event loop of main
  Qtap,                 \* packets read from the tap, waiting for the socket
  Qsock,                \* packets read from the socket, waiting for the tap
  qtap_next_pkt_out,    \* time left to Qtap's output event, NONE when unset
  qsock_next_pkt_out,   \* time left to Qsock's output event, NONE when unset
  trigger_seq,          \* sequence that triggered the mechanism, Unset when clear
  in_backward_cc,       \* phase: -1 idle, -2 armed, -3 counting, >= 0 rounds
  pkt_count,            \* tap packets counted while in_backward_cc = -3
  dupack,               \* the pure ACK kept as template
  j,                    \* the flags io_timeout returned for this iteration
  pc,                   \* the handler the iteration is at
  \* ---- observations of the run
  ev,                   \* what the last handler did
  plusLog,              \* the plus arguments of the dup-ACKs of this episode
  sinceSockOk,          \* time since the last FDSOCK_OUT_OK, up to T
  sinceTapOk,           \* time since the last FDTAP_OUT_OK, up to T
  gapSock,              \* time between the last two FDSOCK_OUT_OK, up to T
  gapTap,               \* time between the last two FDTAP_OUT_OK, up to T
  ntap,                 \* packets read from the tap so far
  nsock,                \* packets read from the socket so far
  \* ---- the functions of process_pkt.c, called on their own
  given,                \* the packet a function is given
  call,                 \* the function called and its other arguments
  result                \* what it returned

qvars == <<Q, qop, qret, accepted, returned>>

loopvars == <<Qtap, Qsock, qtap_next_pkt_out, qsock_next_pkt_out, trigger_seq,
              in_backward_cc, pkt_count, dupack, j, pc, ev, plusLog,
              sinceSockOk, sinceTapOk, gapSock, gapTap, ntap, nsock>>

pvars == <<given, call, result>>

vars == <<qvars, loopvars, pvars>>

(***************************************************************************)
(* queue.c                                                                 *)
(***************************************************************************)
\* float a = 0.5; ewma(a, ewma_last, Qcurrent) = (1-a)*ewma_last + a*Qcurrent,
\* on values held in units of 1/EwmaScale, rounded down
ewma(ewma_last, Qcurrent) == (ewma_last + Qcurrent * EwmaScale) \div 2

isempty(p) == IF p.front = p.rear THEN 1 ELSE 0

queue_init(queuesize) ==
  [ buffer_size |-> queuesize,
    fullness    |-> 0,
    sfullness   |-> 0,
    bfullness   |-> 0,
    rear        |-> 0,
    front       |-> 0,
    arr         |-> [i \in 0 .. (queuesize - 1) |-> GARBAGE] ]

\* enqueue_packet without the test for a full queue
enqueue_packet_untested(p, pkt) ==
  LET t == (p.rear + 1) % p.buffer_size IN
  [q |-> [p EXCEPT !.rear = t,
                   !.arr[t] = pkt,
                   !.fullness = p.fullness + 1,
                   !.sfullness = ewma(p.sfullness, p.fullness + 1),
                   !.bfullness = p.bfullness + pkt.length],
   ret |-> 1]

\* the queue after the call, and the value returned
enqueue_packet(p, pkt) ==
  LET t == (p.rear + 1) % p.buffer_size IN
  IF t = p.front
    THEN [q |-> p, ret |-> 0]
    ELSE [q |-> [p EXCEPT !.rear = t,
                          !.arr[t] = pkt,
                          !.fullness = p.fullness + 1,
                          !.sfullness = ewma(p.sfullness, p.fullness + 1),
                          !.bfullness = p.bfullness + pkt.length],
          ret |-> 1]

\* the slot read_packet returns
read_packet(p) ==
  IF isempty(p) = 1 THEN NULL ELSE p.arr[p.front]

\* dequeue_packet that keeps its counters on an empty queue but moves front
dequeue_packet_moving(p) ==
  IF isempty(p) = 1
    THEN [q |-> [p EXCEPT !.front = (p.front + 1) % p.buffer_size], ret |-> NULL]
    ELSE LET f == (p.front + 1) % p.buffer_size IN
         [q |-> [p EXCEPT !.front = f,
                          !.fullness = p.fullness - 1,
                          !.sfullness = ewma(p.sfullness, p.fullness - 1),
                          !.bfullness = p.bfullness - p.arr[f].length],
          ret |-> p.arr[f]]

\* dequeue_packet that returns the slot at the old front
dequeue_packet_old_front(p) ==
  IF isempty(p) = 1
    THEN [q |-> p, ret |-> NULL]
    ELSE LET f == (p.front + 1) % p.buffer_size IN
         [q |-> [p EXCEPT !.front = f,
                          !.fullness = p.fullness - 1,
                          !.sfullness = ewma(p.sfullness, p.fullness - 1),
                          !.bfullness = p.bfullness - p.arr[f].length],
          ret |-> p.arr[p.front]]

dequeue_packet(p) ==
  IF isempty(p) = 1
    THEN [q |-> p, ret |-> NULL]
    ELSE LET f == (p.front + 1) % p.buffer_size IN
         [q |-> [p EXCEPT !.front = f,
                          !.fullness = p.fullness - 1,
                          !.sfullness = ewma(p.sfullness, p.fullness - 1),
                          !.bfullness = p.bfullness - p.arr[f].length],
          ret |-> p.arr[f]]

(***************************************************************************)
(* The packets a queue holds, oldest first: slots front+1 .. rear.         *)
(***************************************************************************)
Slots(p) == [i \in 1 .. ((p.rear - p.front) % p.buffer_size) |->
               p.arr[(p.front + i) % p.buffer_size]]

RECURSIVE SumLen(_)
SumLen(s) == IF s = <<>> THEN 0 ELSE Head(s).length + SumLen(Tail(s))

\* a queue of the loop: main calls only enqueue_packet and dequeue_packet, which
\* never read a slot outside front+1 .. rear, so the loop keeps no content there
Live(p) ==
  [p EXCEPT !.arr = [i \in 0 .. (p.buffer_size - 1) |->
                       IF ((i - p.front) % p.buffer_size) \in
                            1 .. ((p.rear - p.front) % p.buffer_size)
                         THEN p.arr[i] ELSE GARBAGE]]

IsPrefix(s, t) == Len(s) <= Len(t) /\ s = SubSeq(t, 1, Len(s))

(***************************************************************************)
(* Packets of the event loop.  A packet_t is its length and its data; the  *)
(* data is held as the header fields process_pkt.c reads through struct    *)
(* iphdr, struct tcphdr and struct tshdr, in host byte order.              *)
(***************************************************************************)
Hdr(protocol, tot_len, doff, id, seq, ack_seq, ack, psh, rst, sts) ==
  [ \* struct iphdr, from 10.0.0.1 to 10.0.0.2
    version |-> 4, ihl |-> 5, tos |-> 0, tot_len |-> tot_len, id |-> id,
    frag_off |-> 16384, ttl |-> 64, protocol |-> protocol, check |-> 0,
    saddr |-> 167772161, daddr |-> 167772162,
    \* struct tcphdr
    source |-> 5001, dest |-> 40000, seq |-> seq, ack_seq |-> ack_seq,
    doff |-> doff,
    urg |-> 0, ack |-> ack, psh |-> psh, rst |-> rst, syn |-> 0, fin |-> 0,
    window |-> 229, tcp_check |-> 0, urg_ptr |-> 0,
    \* struct tshdr
    pad1 |-> 1, pad2 |-> 1, ok |-> 8, ol |-> 10, sts |-> sts, ets |-> 3 ]

\* the fields of the three headers
IpFields == {"version", "ihl", "tos", "tot_len", "id", "frag_off", "ttl",
             "protocol", "check", "saddr", "daddr"}
TcpFields == {"source", "dest", "seq", "ack_seq", "doff", "urg", "ack", "psh",
              "rst", "syn", "fin", "window", "tcp_check", "urg_ptr"}
TsFields == {"pad1", "pad2", "ok", "ol", "sts", "ets"}

Packet(length, data) == [length |-> length, data |-> data]

\* sequence numbers of the segments the local side sends into the tap
TapSeqs == {4096, 4097, -1}

\* what one read of the tap can deliver
TapSeg(s) == Packet(60, Hdr(6, 60, 8, 20, s, 900, 1, 1, 0, 5))
TapPkts == { TapSeg(s) : s \in TapSeqs }

\* what one read of the socket can deliver: a pure ACK below the trigger, a
\* pure ACK above it, a segment without the ACK flag, a data segment
AckLow  == Packet(52, Hdr(6, 52, 8, 100, 900, 4095, 1, 0, 0, 7))
AckHigh == Packet(52, Hdr(6, 52, 8, 101, 900, 4101, 1, 0, 0, 9))
RstSeg  == Packet(40, Hdr(6, 40, 5, 102, 900, 0, 0, 0, 1, 0))
DataSeg == Packet(60, Hdr(6, 60, 8, 103, 900, 4095, 1, 1, 0, 8))
SockPkts == {AckLow, AckHigh, RstSeg, DataSeg}

\* a pure ACK that carries SACK blocks after the Timestamp option: data offset
\* 11, 64 bytes
AckSack == Packet(64, Hdr(6, 64, 11, 105, 900, 4095, 1, 0, 0, 6))
AckPkts == {AckLow, AckSack}

\* a pure ACK with the largest ACK number, 0xFFFFFFFF
AckMax == Packet(52, Hdr(6, 52, 8, 106, 900, -1, 1, 0, 0, 4))

\* a tap packet that is not TCP: a UDP datagram whose bytes at the offset of
\* the TCP sequence number read 4096
UdpPkt == Packet(48, Hdr(17, 48, 0, 21, 4096, 0, 0, 0, 0, 0))

\* what the socket read leaves when read_n returns 0 at end of file: length 0
\* and the data malloc gave, never written
EofPkts == { Packet(0, AckHigh.data), Packet(0, RstSeg.data) }

\* #define BUFSIZE 2000, and the size of packet_t.data
BUFSIZE == 2000
DataCapacity == 1500

\* cread(fd, buf, n) on the tap: one frame for a read, cut at n bytes
cread(frame, n) == IF frame < n THEN frame ELSE n

\* read_n(fd, buf, n) on a socket that is not at end of file: n bytes
read_n(n) == n

\* frames the tap can hold for a read: a small segment, an IP packet of
\* 1500 bytes, an Ethernet frame carrying one (IFF_TAP), a frame of an
\* interface with a larger MTU
TapFrames == {60, 1500, 1514, 2100}

\* nread = cread(tap_fd, packet->data, BUFSIZE); packet->length = nread
TapRead(frame) ==
  Packet(cread(frame, BUFSIZE), Hdr(6, frame, 8, 20, 4096, 900, 1, 1, 0, 5))
TapReads == { TapRead(frame) : frame \in TapFrames }

\* length prefixes the peer can send
Plengths == {52, 1500, 1501, 65535}

\* nread = read_n(net_fd, packet->data, ntohs(plength)); packet->length = nread
SockRead(plength) ==
  Packet(read_n(plength), Hdr(6, plength, 8, 101, 900, 4101, 1, 0, 0, 9))
SockReads == { SockRead(plength) : plength \in Plengths }

\* what a read of released memory can give for the sequence number of the
\* packet that was there: the bytes as they were, or other bytes
StaleSeqs(packet) == {packet.data.seq, 0}

(***************************************************************************)
(* process_pkt.c                                                           *)
(***************************************************************************)
\* a >= b after both are converted to unsigned int
UGe(a, b) == IF (a < 0) = (b < 0) THEN a >= b ELSE a < 0

\* CheckPureTCPAck without the test of the SYN flag
CheckPureTCPAck_no_syn(buffer) ==
  IF buffer.protocol = 6
    THEN IF buffer.ack = 0 THEN 0
         ELSE IF buffer.urg = 1 THEN 0
         ELSE IF buffer.psh = 1 THEN 0
         ELSE IF buffer.rst = 1 THEN 0
         ELSE IF buffer.fin = 1 THEN 0
         ELSE IF buffer.tot_len - buffer.ihl * 4 - buffer.doff * 4 = 0 THEN 1
         ELSE 0
    ELSE 0

CheckPureTCPAck(buffer) ==
  IF buffer.protocol = 6
    THEN IF buffer.ack = 0 THEN 0
         ELSE IF buffer.urg = 1 THEN 0
         ELSE IF buffer.psh = 1 THEN 0
         ELSE IF buffer.rst = 1 THEN 0
         ELSE IF buffer.syn = 1 THEN 0
         ELSE IF buffer.fin = 1 THEN 0
         ELSE IF buffer.tot_len - buffer.ihl * 4 - buffer.doff * 4 = 0 THEN 1
         ELSE 0
    ELSE 0

getACKSeq(buffer) == IF buffer.ack = 1 THEN buffer.ack_seq ELSE -1

getTCPSeq(buffer) == buffer.seq

getTimestampVal(buffer) == buffer.sts

(***************************************************************************)
(* Byte order and memory.  A field of a packet record holds the value the  *)
(* field has on the wire; the host is little-endian, so the 16-bit cell it *)
(* reads from memory for a field of value v is htons(v).                   *)
(***************************************************************************)
ntohs(x) == (x % 256) * 256 + ((x \div 256) % 256)
htons(x) == (x % 256) * 256 + ((x \div 256) % 256)

\* the bytes of a 32-bit word, reversed
ntohl(x) ==
  LET b0 == x % 256
      b1 == (x \div 256) % 256
      b2 == (x \div 65536) % 256
      b3 == (x \div 16777216) % 256
  IN  (IF b0 >= 128 THEN b0 - 256 ELSE b0) * 16777216 + b1 * 65536 + b2 * 256 + b3
htonl(x) == ntohl(x)

\* the two 16-bit words of a 32-bit field, as they are on the wire
Hi16(x) == (x \div 65536) % 65536
Lo16(x) == x % 65536

\* the 16-bit words of the headers, as they are on the wire
IpWords(h) ==
  << (h.version * 16 + h.ihl) * 256 + h.tos, h.tot_len, h.id, h.frag_off,
     h.ttl * 256 + h.protocol, h.check,
     Hi16(h.saddr), Lo16(h.saddr), Hi16(h.daddr), Lo16(h.daddr) >>

TcpWords(h) ==
  << h.source, h.dest, Hi16(h.seq), Lo16(h.seq), Hi16(h.ack_seq), Lo16(h.ack_seq),
     h.doff * 4096 + h.urg * 32 + h.ack * 16 + h.psh * 8 + h.rst * 4
       + h.syn * 2 + h.fin,
     h.window, h.tcp_check, h.urg_ptr >>

TsWords(h) ==
  << h.pad1 * 256 + h.pad2, h.ok * 256 + h.ol,
     Hi16(h.sts), Lo16(h.sts), Hi16(h.ets), Lo16(h.ets) >>

\* struct pseudo_header psh as create_dupack fills it
PseudoWords(h) ==
  << Hi16(h.saddr), Lo16(h.saddr), Hi16(h.daddr), Lo16(h.daddr), 6, 20 + 12 >>

\* the unsigned shorts the host reads from memory that holds these words
Memory(words) == [i \in 1 .. Len(words) |-> htons(words[i])]

RECURSIVE SumCells(_, _)
SumCells(ptr, n) == IF n = 0 THEN 0 ELSE SumCells(ptr, n - 1) + ptr[n]

\* csum that returns the folded sum and not its complement
csum_not_complemented(ptr, nbytes) ==
  LET sum0 == SumCells(ptr, nbytes \div 2)
      sum1 == (sum0 \div 65536) + (sum0 % 65536)
      sum2 == sum1 + (sum1 \div 65536)
  IN  sum2 % 65536

\* csum over the first nbytes bytes of ptr, an array of unsigned short
csum(ptr, nbytes) ==
  LET n    == nbytes \div 2
      sum0 == SumCells(ptr, n) + (IF nbytes % 2 = 1 THEN ptr[n + 1] % 256 ELSE 0)
      sum1 == (sum0 \div 65536) + (sum0 % 65536)
      sum2 == sum1 + (sum1 \div 65536)
  IN  65535 - (sum2 % 65536)

\* memset(dpkt, 0, psize)
ZeroPkt == [f \in IpFields \cup TcpFields \cup TsFields |-> 0]

\* memcpy of one header of src over dst
CopyFields(dst, src, part) ==
  [f \in DOMAIN dst |-> IF f \in part THEN src[f] ELSE dst[f]]

\* create_dupack that leaves the id of the template
create_dupack_same_id(pkt, plus, timestamp) ==
  [pkt EXCEPT !.sts = timestamp]

\* create_dupack that takes the TCP checksum without the pseudo header
create_dupack_no_pseudo(pkt, plus, timestamp) ==
  LET d1 == [CopyFields(ZeroPkt, pkt, IpFields) EXCEPT
               !.id = ntohs(htons((ntohs(htons(pkt.id)) + plus) % 65536)),
               !.check = 0]
      d2 == [d1 EXCEPT !.check = ntohs(csum(Memory(IpWords(d1) \o TcpWords(d1)
                                                     \o TsWords(d1)), 52))]
      d3 == CopyFields(CopyFields(d2, pkt, TcpFields), pkt, TsFields)
      d4 == [d3 EXCEPT !.tcp_check = 0, !.sts = ntohl(htonl(timestamp))]
  IN  [d4 EXCEPT !.tcp_check = ntohs(csum(Memory(TcpWords(d4) \o TsWords(d4)), 32))]

\* the 52 bytes create_dupack returns
create_dupack(pkt, plus, timestamp) ==
  LET \* memset, memcpy(dip, ip), dip->id, dip->check = 0
      d1 == [CopyFields(ZeroPkt, pkt, IpFields) EXCEPT
               !.id = ntohs(htons((ntohs(htons(pkt.id)) + plus) % 65536)),
               !.check = 0]
      \* dip->check = csum(dpkt, psize), the TCP part being still zero
      d2 == [d1 EXCEPT !.check = ntohs(csum(Memory(IpWords(d1) \o TcpWords(d1)
                                                     \o TsWords(d1)), 52))]
      \* memcpy(dtcp, tcp), memcpy(dts, ts)
      d3 == CopyFields(CopyFields(d2, pkt, TcpFields), pkt, TsFields)
      \* dtcp->check = 0, dts->sts = htonl(timestamp)
      d4 == [d3 EXCEPT !.tcp_check = 0, !.sts = ntohl(htonl(timestamp))]
      pseudogram == Memory(PseudoWords(d4) \o TcpWords(d4) \o TsWords(d4))
  IN  [d4 EXCEPT !.tcp_check = ntohs(csum(pseudogram, 44))]

(***************************************************************************)
(* simpletun_advanced.c: io_timeout                                        *)
(*                                                                         *)
(* The clock is not part of the state: a deadline is held as the time left *)
(* to it, which is what io_timeout computes from it (remain_usec_1 and     *)
(* remain_usec_2, never below 0).  NONE stands for tv_sec == -1.           *)
(***************************************************************************)
NONE == -1

Max(a, b) == IF a > b THEN a ELSE b
Min(a, b) == IF a < b THEN a ELSE b

\* a deadline, d clock units later
After(next_pkt_out, d) ==
  IF next_pkt_out = NONE THEN NONE ELSE Max(0, next_pkt_out - d)

use_null_timeout(qtap_next, qsock_next) == qtap_next = NONE /\ qsock_next = NONE

\* the choice that takes the later of two deadlines
Which_farther(qtap_next, qsock_next) ==
  IF qtap_next = NONE /\ qsock_next = NONE THEN 0
  ELSE IF qtap_next = NONE THEN 2
  ELSE IF qsock_next = NONE THEN 1
  ELSE IF qtap_next > qsock_next THEN 1 ELSE 2

\* the queue whose output event is next: 1 is Qtap, 2 is Qsock, 0 is unassigned
Which(qtap_next, qsock_next) ==
  IF qtap_next = NONE /\ qsock_next = NONE THEN 0
  ELSE IF qtap_next = NONE THEN 2
  ELSE IF qsock_next = NONE THEN 1
  ELSE IF qtap_next < qsock_next THEN 1 ELSE 2

\* the timeout given to select
Timeout(qtap_next, qsock_next) ==
  IF Which(qtap_next, qsock_next) = 1 THEN qtap_next
  ELSE IF Which(qtap_next, qsock_next) = 2 THEN qsock_next
  ELSE 0

\* a deadline set at the current time without the pacing interval
Schedule_at_once(now) == now

\* the deadline of the next output event, set at the current time
Schedule(now) == now + T

\* what the first select can report: the descriptors readable and the time
\* it took; nothing readable is the timeout, reached no sooner than asked for
SelectOutcomes(qtap_next, qsock_next) ==
  LET null == use_null_timeout(qtap_next, qsock_next)
      t    == Timeout(qtap_next, qsock_next)
  IN  { [readable |-> R, d |-> d] :
          R \in (SUBSET {"tap", "sock"}) \ {{}},
          d \in 0 .. (IF null THEN T ELSE t) }
      \cup
      (IF null THEN {}
       ELSE { [readable |-> {}, d |-> t + l] : l \in 0 .. MaxLate })

\* io_timeout that looks for an output event whatever the first select returned
io_timeout_always_output(qtap_next, qsock_next, readable, d, writable) ==
  LET which == Which(qtap_next, qsock_next)
      qt1   == After(qtap_next, d)
      qs1   == After(qsock_next, d)
      qt2   == IF "tap" \in readable /\ qt1 = NONE THEN Schedule(0) ELSE qt1
      qs2   == IF "sock" \in readable /\ qs1 = NONE THEN Schedule(0) ELSE qs1
      in    == (IF "tap" \in readable THEN {"FDTAP_IN_RDY"} ELSE {})
               \cup (IF "sock" \in readable THEN {"FDSOCK_IN_RDY"} ELSE {})
      out   == IF which = 1
                 THEN (IF "sock" \in writable THEN {"FDSOCK_OUT_OK"}
                                              ELSE {"FDSOCK_OUT_OVERRUN"})
               ELSE IF which = 2
                 THEN (IF "tap" \in writable THEN {"FDTAP_OUT_OK"}
                                             ELSE {"FDTAP_OUT_OVERRUN"})
               ELSE {}
  IN  [ ret   |-> in \cup out,
        qtap  |-> IF "FDSOCK_OUT_OK" \in out THEN Schedule(0) ELSE qt2,
        qsock |-> IF "FDTAP_OUT_OK" \in out THEN Schedule(0) ELSE qs2,
        which |-> which ]

\* io_timeout that sets the next output event on an overrun too
io_timeout_overrun_rescheduled(qtap_next, qsock_next, readable, d, writable) ==
  LET which == Which(qtap_next, qsock_next)
      srv   == Cardinality(readable)
      qt1   == After(qtap_next, d)
      qs1   == After(qsock_next, d)
      qt2   == IF "tap" \in readable /\ qt1 = NONE THEN Schedule(0) ELSE qt1
      qs2   == IF "sock" \in readable /\ qs1 = NONE THEN Schedule(0) ELSE qs1
      in    == (IF "tap" \in readable THEN {"FDTAP_IN_RDY"} ELSE {})
               \cup (IF "sock" \in readable THEN {"FDSOCK_IN_RDY"} ELSE {})
      out   == IF srv # 0 THEN {}
               ELSE IF which = 1
                 THEN (IF "sock" \in writable THEN {"FDSOCK_OUT_OK"}
                                              ELSE {"FDSOCK_OUT_OVERRUN"})
               ELSE IF which = 2
                 THEN (IF "tap" \in writable THEN {"FDTAP_OUT_OK"}
                                             ELSE {"FDTAP_OUT_OVERRUN"})
               ELSE {}
  IN  [ ret   |-> in \cup out,
        qtap  |-> IF srv = 0 /\ which = 1 THEN Schedule(0) ELSE qt2,
        qsock |-> IF srv = 0 /\ which = 2 THEN Schedule(0) ELSE qs2,
        which |-> which ]

\* the flags returned and the deadlines left, for one outcome of the first
\* select and the descriptors the second select finds writable
io_timeout(qtap_next, qsock_next, readable, d, writable) ==
  LET which == Which(qtap_next, qsock_next)
      srv   == Cardinality(readable)
      qt1   == After(qtap_next, d)
      qs1   == After(qsock_next, d)
      qt2   == IF "tap" \in readable /\ qt1 = NONE THEN Schedule(0) ELSE qt1
      qs2   == IF "sock" \in readable /\ qs1 = NONE THEN Schedule(0) ELSE qs1
      in    == (IF "tap" \in readable THEN {"FDTAP_IN_RDY"} ELSE {})
               \cup (IF "sock" \in readable THEN {"FDSOCK_IN_RDY"} ELSE {})
      out   == IF srv # 0 THEN {}
               ELSE IF which = 1
                 THEN (IF "sock" \in writable THEN {"FDSOCK_OUT_OK"}
                                              ELSE {"FDSOCK_OUT_OVERRUN"})
               ELSE IF which = 2
                 THEN (IF "tap" \in writable THEN {"FDTAP_OUT_OK"}
                                             ELSE {"FDTAP_OUT_OVERRUN"})
               ELSE {}
  IN  [ ret   |-> in \cup out,
        qtap  |-> IF "FDSOCK_OUT_OK" \in out THEN Schedule(0) ELSE qt2,
        qsock |-> IF "FDTAP_OUT_OK" \in out THEN Schedule(0) ELSE qs2,
        which |-> which ]

(***************************************************************************)
(* The stand-alone queue: any sequence of calls on one queue.              *)
(***************************************************************************)
QInit ==
  /\ Q = queue_init(QCapacity)
  /\ qop = "init"
  /\ qret = NULL
  /\ accepted = <<>>
  /\ returned = <<>>

QEnqueue ==
  \E pkt \in QPkts :
    LET r == enqueue_packet(Q, pkt) IN
    /\ Len(accepted) < MaxAccepted
    /\ Q' = r.q
    /\ qop' = "enqueue"
    /\ qret' = r.ret
    /\ accepted' = IF r.ret = 1 THEN Append(accepted, pkt) ELSE accepted
    /\ UNCHANGED returned
    /\ UNCHANGED loopvars
    /\ UNCHANGED pvars

QDequeue ==
  LET r == dequeue_packet(Q) IN
  /\ Q' = r.q
  /\ qop' = "dequeue"
  /\ qret' = r.ret
  /\ returned' = IF r.ret # NULL THEN Append(returned, r.ret) ELSE returned
  /\ UNCHANGED accepted
  /\ UNCHANGED loopvars
  /\ UNCHANGED pvars

\* read_packet: a slot never written holds whatever malloc left there
QRead ==
  \E v \in IF read_packet(Q) = GARBAGE THEN QPkts \cup {NULL} ELSE {read_packet(Q)} :
    /\ qop' = "read"
    /\ qret' = v
    /\ UNCHANGED <<Q, accepted, returned>>
    /\ UNCHANGED loopvars
    /\ UNCHANGED pvars


(***************************************************************************)
(* simpletun_advanced.c: the loop of main.  One action per handler of an   *)
(* iteration, in the order of the code: io_timeout, then the handlers of   *)
(* the flags it returned.                                                  *)
(***************************************************************************)
\* unsigned int trigger_seq = -1
Unset == -1

\* the handlers of an iteration, in the order main runs them
Handlers == << [h |-> "tap_in",   flag |-> "FDTAP_IN_RDY"],
               [h |-> "sock_in",  flag |-> "FDSOCK_IN_RDY"],
               [h |-> "tap_out",  flag |-> "FDTAP_OUT_OK"],
               [h |-> "sock_out", flag |-> "FDSOCK_OUT_OK"] >>

\* the first handler after position k whose flag is set; io_timeout when none
NextPc(k, flags) ==
  LET later == { i \in (k + 1) .. Len(Handlers) : Handlers[i].flag \in flags } IN
  IF later = {} THEN "io_timeout"
  ELSE Handlers[CHOOSE i \in later : \A m \in later : i <= m].h

\* cwrite(fd, buf, n)
Write(buf, n) == [kind |-> "pkt", data |-> buf, n |-> n]

\* a plus argument that starts at 0
dupack_plus_from_zero(cc, count, i) == (cc * count) - count + i

\* the plus argument of the i-th dup-ACK of a burst
dupack_plus(cc, count, i) == (cc * count) - count + i + 1

\* psize of create_dupack: sizeof(struct iphdr) + sizeof(struct tcphdr) +
\* sizeof(struct tshdr)
DupackSize == 52

\* cwrite(tap_fd, create_dupack(dupack->data, plus, timestamp), dupack->length)
WriteDupack(template, plus, timestamp) ==
  [ kind |-> "dupack", data |-> create_dupack(template.data, plus, timestamp),
    n |-> template.length, src |-> template, plus |-> plus,
    timestamp |-> timestamp ]

\* the test that ends an episode: "Send last DUPACK"
LastDupack(packet, trigger) ==
  UGe(getACKSeq(packet.data), trigger) /\ trigger # Unset

\* the test that keeps a tap packet out of Qtap: "Stop retransmission"
IsRetransmission(packet, trigger) == getTCPSeq(packet.data) = trigger

\* an output deadline that outlives an empty queue
NextOut_kept(packet, next_pkt_out) == next_pkt_out

\* an output deadline disabled by every dequeue
NextOut_disabled(packet, next_pkt_out) == NONE

\* the output deadline after a dequeue: disabled when dequeue_packet returned NULL
NextOut(packet, next_pkt_out) == IF packet = NULL THEN NONE ELSE next_pkt_out

\* an arming test that does not look at the phase
Congested_any_phase(q, cc) == q.fullness > HighWater

\* the test that arms the mechanism
Congested(q, cc) == q.fullness > HighWater /\ cc = -1

LoopInit ==
  /\ Qtap = queue_init(QSIZE)
  /\ Qsock = queue_init(QSIZE)
  /\ qtap_next_pkt_out = NONE
  /\ qsock_next_pkt_out = NONE
  /\ trigger_seq = Unset
  /\ in_backward_cc = -1
  /\ pkt_count = 0
  /\ dupack = NULL
  /\ j = {}
  /\ pc = "io_timeout"
  /\ ev = [h |-> "init"]
  /\ plusLog = <<>>
  /\ sinceSockOk = NONE
  /\ sinceTapOk = NONE
  /\ gapSock = NONE
  /\ gapTap = NONE
  /\ ntap = 0
  /\ nsock = 0

\* time since an event, d clock units later
Since(since, d) == IF since = NONE THEN NONE ELSE Min(T, since + d)

\* j = io_timeout(tap_fd, net_fd); with observe, the times between output
\* events are followed too.  The two sides send at most maxtap and maxsock
\* packets, and the second select finds a descriptor writable as tapok and
\* sockok allow
IoTimeoutEnv(observe, maxtap, maxsock, tapok, sockok) ==
  /\ pc = "io_timeout"
  /\ \E o \in SelectOutcomes(qtap_next_pkt_out, qsock_next_pkt_out),
        writable \in SUBSET {"tap", "sock"} :
       LET r == io_timeout(qtap_next_pkt_out, qsock_next_pkt_out,
                           o.readable, o.d, writable)
       IN
       \* only the descriptor of the queue that is due is looked at
       /\ IF r.which = 1 /\ o.readable = {}
            THEN ("sock" \in writable) \in sockok
            ELSE "sock" \in writable
       /\ IF r.which = 2 /\ o.readable = {}
            THEN ("tap" \in writable) \in tapok
            ELSE "tap" \in writable
       \* what the two sides send in one run is bounded
       /\ "tap" \in o.readable => ntap < maxtap
       /\ "sock" \in o.readable => nsock < maxsock
       /\ ("tap" \in o.readable /\ in_backward_cc = -3) => pkt_count < MaxPktCount
       /\ ntap' = IF "tap" \in o.readable THEN ntap + 1 ELSE ntap
       /\ nsock' = IF "sock" \in o.readable THEN nsock + 1 ELSE nsock
       /\ qtap_next_pkt_out' = r.qtap
       /\ qsock_next_pkt_out' = r.qsock
       /\ j' = r.ret
       /\ pc' = NextPc(0, r.ret)
       /\ ev' = [h |-> "io_timeout"]
       /\ IF observe
            THEN /\ sinceSockOk' = IF "FDSOCK_OUT_OK" \in r.ret THEN 0
                                   ELSE Since(sinceSockOk, o.d)
                 /\ sinceTapOk' = IF "FDTAP_OUT_OK" \in r.ret THEN 0
                                  ELSE Since(sinceTapOk, o.d)
                 /\ gapSock' = IF "FDSOCK_OUT_OK" \in r.ret /\ sinceSockOk # NONE
                                 THEN Since(sinceSockOk, o.d) ELSE gapSock
                 /\ gapTap' = IF "FDTAP_OUT_OK" \in r.ret /\ sinceTapOk # NONE
                                THEN Since(sinceTapOk, o.d) ELSE gapTap
            ELSE UNCHANGED <<sinceSockOk, sinceTapOk, gapSock, gapTap>>
  /\ UNCHANGED <<Qtap, Qsock, trigger_seq, in_backward_cc, pkt_count, dupack, plusLog>>
  /\ UNCHANGED qvars
  /\ UNCHANGED pvars

\* the loop as all the runs but the ones named otherwise see it
IoTimeoutOf(observe) ==
  IoTimeoutEnv(observe, MaxTapReads, MaxSockReads, BOOLEAN, BOOLEAN)

\* if (j & FDTAP_IN_RDY): read a packet from the tap, enqueue it in Qtap
\* unless it is the retransmission, arm when Qtap is past the high water mark
TapInOf(pkts) ==
  /\ pc = "tap_in"
  /\ \E packet \in pkts, stale \in {4096, 4097, -1, 0} :
       LET drop  == IsRetransmission(packet, trigger_seq)
           r     == enqueue_packet(Qtap, packet)
           q     == IF drop THEN Qtap ELSE r.q
           freed == drop \/ r.ret = 0
           arm   == Congested(q, in_backward_cc)
       IN
       \* packet->data is read after free(packet) when the packet was dropped
       /\ stale \in StaleSeqs(packet)
       /\ stale = getTCPSeq(packet.data) \/ (arm /\ freed)
       /\ pkt_count' = IF in_backward_cc = -3 THEN (pkt_count + 1) % 65536
                                              ELSE pkt_count
       /\ Qtap' = Live(q)
       /\ trigger_seq' = IF arm THEN stale ELSE trigger_seq
       /\ in_backward_cc' = IF arm THEN -2 ELSE in_backward_cc
       /\ ev' = [h |-> "tap_in", pkt |-> packet, enq |-> ~freed, freed |-> freed,
                 armed |-> arm]
  /\ pc' = NextPc(1, j)
  /\ UNCHANGED <<Qsock, qtap_next_pkt_out, qsock_next_pkt_out, dupack, j, plusLog,
                 sinceSockOk, sinceTapOk, gapSock, gapTap, ntap, nsock>>
  /\ UNCHANGED qvars
  /\ UNCHANGED pvars

\* if (j & FDSOCK_IN_RDY): read a packet from the socket, enqueue it in Qsock
SockInOf(pkts) ==
  /\ pc = "sock_in"
  /\ \E packet \in pkts :
       LET r == enqueue_packet(Qsock, packet) IN
       /\ Qsock' = Live(r.q)
       /\ ev' = [h |-> "sock_in", pkt |-> packet, enq |-> r.ret = 1,
                 freed |-> r.ret = 0]
  /\ pc' = NextPc(2, j)
  /\ UNCHANGED <<Qtap, qtap_next_pkt_out, qsock_next_pkt_out, trigger_seq,
                 in_backward_cc, pkt_count, dupack, j, plusLog,
                 sinceSockOk, sinceTapOk, gapSock, gapTap, ntap, nsock>>
  /\ UNCHANGED qvars
  /\ UNCHANGED pvars

\* a choice of branch that takes a new template in every round
TapOutBranch_retemplate(packet, cc, trigger) ==
  IF packet = NULL THEN "empty"
  ELSE IF cc > -1
    THEN IF CheckPureTCPAck(packet.data) = 1 /\ ~LastDupack(packet, trigger)
           THEN "template"
         ELSE IF cc = 0 THEN "skip"
         ELSE IF LastDupack(packet, trigger) THEN "last"
         ELSE "burst"
  ELSE "forward"

\* the branch the tap output handler takes for the packet it dequeued, with
\* cc the phase after "if (in_backward_cc == -3) in_backward_cc = 0"
TapOutBranch(packet, cc, trigger) ==
  IF packet = NULL THEN "empty"
  ELSE IF cc > -1
    THEN IF cc = 0
           THEN (IF CheckPureTCPAck(packet.data) = 1 THEN "template" ELSE "skip")
         ELSE IF LastDupack(packet, trigger) THEN "last"
         ELSE "burst"
  ELSE "forward"

\* if (j & FDTAP_OUT_OK): dequeue from Qsock and write to the tap, or run the
\* backward-congestion mechanism
TapOut ==
  /\ pc = "tap_out"
  /\ LET cc     == IF in_backward_cc = -3 THEN 0 ELSE in_backward_cc
         r      == dequeue_packet(Qsock)
         packet == r.ret
         br     == TapOutBranch(packet, cc, trigger_seq)
         burst  == [i \in 1 .. pkt_count |->
                      WriteDupack(dupack, dupack_plus(cc, pkt_count, i - 1),
                                  getTimestampVal(packet.data))]
     IN
     /\ br = "burst" => cc < MaxRound
     /\ Qsock' = Live(r.q)
     /\ qsock_next_pkt_out' = NextOut(packet, qsock_next_pkt_out)
     /\ in_backward_cc' =
          CASE br = "template" -> cc + 1
            [] br = "last"     -> -1
            [] br = "burst"    -> cc + 1
            [] br = "forward"  -> (IF cc = -2 THEN -3 ELSE cc)
            [] OTHER           -> cc
     \* after free(dupack) the pointer is indeterminate; it is not read again
     \* before "template" sets it
     /\ dupack' = CASE br = "template" -> packet
                    [] br = "last"     -> NULL
                    [] OTHER           -> dupack
     /\ trigger_seq' = IF br = "last" THEN Unset ELSE trigger_seq
     /\ pkt_count' = IF br = "last" THEN 0 ELSE pkt_count
     /\ plusLog' = CASE br = "burst" -> plusLog \o [i \in 1 .. pkt_count |-> burst[i].plus]
                     [] br = "last"  -> <<>>
                     [] OTHER        -> plusLog
     /\ ev' = [ h |-> "tap_out", br |-> br, pkt |-> packet,
                tapw  |-> CASE br \in {"template", "last", "forward"} ->
                                 <<Write(packet.data, packet.length)>>
                            [] br = "burst" -> burst
                            [] OTHER -> <<>>,
                freed |-> CASE br = "last" -> <<dupack>>
                            [] br = "forward" /\ cc = -1 -> <<packet>>
                            [] OTHER -> <<>> ]
  /\ pc' = NextPc(3, j)
  /\ UNCHANGED <<Qtap, qtap_next_pkt_out, j, sinceSockOk, sinceTapOk, gapSock, gapTap, ntap, nsock>>
  /\ UNCHANGED qvars
  /\ UNCHANGED pvars

\* if (j & FDSOCK_OUT_OK): dequeue from Qtap and write to the socket
SockOut ==
  /\ pc = "sock_out"
  /\ LET r      == dequeue_packet(Qtap)
         packet == r.ret
     IN
     /\ Qtap' = Live(r.q)
     /\ qtap_next_pkt_out' = NextOut(packet, qtap_next_pkt_out)
     /\ ev' = [ h |-> "sock_out", pkt |-> packet,
                sockw |-> IF packet = NULL THEN <<>>
                          ELSE <<[kind |-> "plength", data |-> packet.length, n |-> 2],
                                 Write(packet.data, packet.length)>>,
                freed |-> IF packet = NULL THEN <<>> ELSE <<packet>> ]
  /\ pc' = NextPc(4, j)
  /\ UNCHANGED <<Qsock, qsock_next_pkt_out, trigger_seq, in_backward_cc, pkt_count,
                 dupack, j, plusLog, sinceSockOk, sinceTapOk, gapSock, gapTap, ntap, nsock>>
  /\ UNCHANGED qvars
  /\ UNCHANGED pvars

\* no function of process_pkt.c has been called on its own
PktIdle ==
  /\ given = NULL
  /\ call = [fn |-> "none"]
  /\ result = NULL

Init == LoopInit /\ QInit /\ PktIdle

(***************************************************************************)
(* The runs of the loop.  The code is the same in all of them; they differ *)
(* in what the two descriptors deliver and in whether the times between    *)
(* output events are followed.                                             *)
(***************************************************************************)
\* the tap delivers every kind of segment, the socket pure ACKs that cover
\* the trigger
IoTimeout == IoTimeoutOf(FALSE)
TapIn == TapInOf(TapPkts)
SockInAck == SockInOf({AckHigh})
NextTap == IoTimeout \/ TapIn \/ SockInAck \/ TapOut \/ SockOut
SpecTap == Init /\ [][NextTap]_vars

\* the socket delivers every kind of segment, the tap one sequence number
TapInOne == TapInOf({TapSeg(4096)})
SockIn == SockInOf(SockPkts)
NextSock == IoTimeout \/ TapInOne \/ SockIn \/ TapOut \/ SockOut
SpecSock == Init /\ [][NextSock]_vars

\* the times between output events are followed
IoTimeoutPaced == IoTimeoutOf(TRUE)
NextPace == IoTimeoutPaced \/ TapInOne \/ SockInAck \/ TapOut \/ SockOut
SpecPace == Init /\ [][NextPace]_vars

\* the tap delivers packets that are not TCP too, the peer has closed the socket
TapInAny == TapInOf({TapSeg(4096), UdpPkt})
SockInEof == SockInOf(EofPkts)
NextEdge == IoTimeout \/ TapInAny \/ SockInEof \/ TapOut \/ SockOut
SpecEdge == Init /\ [][NextEdge]_vars

\* the socket delivers pure ACKs of two lengths, none covering the trigger
SockInAcks == SockInOf(AckPkts)
NextAck == IoTimeout \/ TapInOne \/ SockInAcks \/ TapOut \/ SockOut
SpecAck == Init /\ [][NextAck]_vars

\* two episodes: the tap delivers the sequence numbers 4096 and 0xFFFFFFFF,
\* the socket pure ACKs whose ACK number is at or above every trigger_seq
IoTimeoutLong ==
  IoTimeoutEnv(FALSE, MaxTapReads, MaxSockReadsLong, BOOLEAN, BOOLEAN)
TapInEnds == TapInOf({TapSeg(4096), TapSeg(-1)})
SockInMax == SockInOf({AckMax})
NextMax == IoTimeoutLong \/ TapInEnds \/ SockInMax \/ TapOut \/ SockOut
SpecMax == Init /\ [][NextMax]_vars

\* the tap is never ready for writing and the socket always is, so no
\* FDTAP_OUT_OK is returned and the tap output handler never runs.  The loop is
\* one sequential program: whenever a step of it can be taken, one is taken
IoTimeoutTapBlocked ==
  IoTimeoutEnv(FALSE, MaxTapReads, MaxSockReads, {FALSE}, {TRUE})
NextTapBlocked == IoTimeoutTapBlocked \/ TapInOne \/ SockInAck \/ SockOut
SpecTapBlocked == Init /\ [][NextTapBlocked]_vars /\ WF_vars(NextTapBlocked)

\* the tap delivers frames of every size, the socket every length prefix
TapInFrames == TapInOf(TapReads)
SockInFrames == SockInOf(SockReads)
IoTimeoutShort ==
  IoTimeoutEnv(FALSE, MaxReadsShort, MaxReadsShort, BOOLEAN, BOOLEAN)
NextLen == IoTimeoutShort \/ TapInFrames \/ SockInFrames \/ TapOut \/ SockOut
SpecLen == Init /\ [][NextLen]_vars

InitQueue == QInit /\ LoopInit /\ PktIdle

(***************************************************************************)
(* The functions of process_pkt.c called on their own, on packets of every *)
(* kind.                                                                   *)
(***************************************************************************)
\* packets to classify: TCP and UDP, with and without IP options and TCP
\* options, with every combination of the six flags, with and without payload
ClassBuffers ==
  { [Hdr(protocol, tot_len, doff, 7, 900, 4095, ack, psh, rst, 5) EXCEPT
       !.ihl = ihl, !.urg = urg, !.syn = syn, !.fin = fin] :
      protocol \in {6, 17}, ihl \in {5, 6}, doff \in {5, 8},
      tot_len \in {40, 44, 48, 52},
      ack \in {0, 1}, psh \in {0, 1}, rst \in {0, 1},
      urg \in {0, 1}, syn \in {0, 1}, fin \in {0, 1} }

\* pure ACKs with the Timestamp option, as create_dupack is given them
Templates ==
  { [Hdr(6, 52, 8, id, 900, ack_seq, 1, 0, 0, 5) EXCEPT !.saddr = saddr] :
      id \in {0, 1, 4660, 65535}, ack_seq \in {4095, -1},
      saddr \in {167772161, -1062731775} }

\* the plus and timestamp arguments of create_dupack
Pluses == {1, 2, 65535, 65539, -1}
Timestamps == {0, 9, 305419896, -1}

\* the words of the IP options of a header of ihl 32-bit words
OptionWords(ihl) ==
  IF ihl = 5 THEN { <<>> }
  ELSE { <<257, 256>>, <<65535, 65535>>, <<34823, 1>> }

PktInit ==
  /\ given \in ClassBuffers \cup Templates
  /\ call = [fn |-> "none"]
  /\ result = NULL

CallCheckPureTCPAck ==
  /\ call' = [fn |-> "CheckPureTCPAck"]
  /\ result' = CheckPureTCPAck(given)
  /\ UNCHANGED <<given, qvars, loopvars>>

CallCreateDupack ==
  /\ given \in Templates
  /\ \E plus \in Pluses, timestamp \in Timestamps :
       /\ call' = [fn |-> "create_dupack", plus |-> plus, timestamp |-> timestamp]
       /\ result' = create_dupack(given, plus, timestamp)
  /\ UNCHANGED <<given, qvars, loopvars>>

\* iph->check = 0; iph->check = csum(iph, ihl*4); then csum(iph, ihl*4) again
CallCsum ==
  /\ \E options \in OptionWords(given.ihl) :
       LET nbytes == given.ihl * 4
           h0 == Memory(IpWords([given EXCEPT !.check = 0]) \o options)
           h1 == [h0 EXCEPT ![6] = csum(h0, nbytes)]
       IN  /\ call' = [fn |-> "csum", header |-> h1, nbytes |-> nbytes]
           /\ result' = csum(h1, nbytes)
  /\ UNCHANGED <<given, qvars, loopvars>>

InitPkt == QInit /\ LoopInit /\ PktInit
NextPkt == CallCheckPureTCPAck \/ CallCreateDupack \/ CallCsum
SpecPkt == InitPkt /\ [][NextPkt]_vars

NextQueue == QEnqueue \/ QDequeue \/ QRead

SpecQueue == InitQueue /\ [][NextQueue]_vars

(***************************************************************************)
(* The queue (queue.c)                                                     *)
(***************************************************************************)
\* the packets accepted and not yet returned, oldest first
Pending == SubSeq(accepted, Len(returned) + 1, Len(accepted))

\* C1: after any sequence of enqueue_packet, dequeue_packet and read_packet
\* calls on a queue made by queue_init, fullness is (rear - front) modulo the
\* capacity, lies in 0 .. capacity - 1, is 0 exactly when front = rear, and
\* bfullness is the sum of the lengths of the packets queued.
C1_QueueInvariant ==
  /\ Q.fullness = (Q.rear - Q.front) % Q.buffer_size
  /\ Q.fullness \in 0 .. (Q.buffer_size - 1)
  /\ (Q.front = Q.rear) <=> (Q.fullness = 0)
  /\ Q.fullness = Len(Pending)
  /\ Q.bfullness = SumLen(Pending)

\* a full queue whose indices have wrapped, just after an enqueue that failed
C1_Witness ==
  /\ qop = "enqueue"
  /\ qret = 0
  /\ Q.fullness = Q.buffer_size - 1
  /\ Q.rear < Q.front
  /\ Q.bfullness > 0

\* C2: the packets returned by dequeue_packet are a prefix of the packets
\* accepted by enqueue_packet, in the same order, and the queue holds the
\* rest: none is reordered, returned twice or skipped.
C2_Fifo ==
  /\ IsPrefix(returned, accepted)
  /\ Slots(Q) = Pending

\* more packets than the queue has slots went through it, not all the same
C2_Witness ==
  /\ Len(returned) > Q.buffer_size
  /\ returned = accepted
  /\ returned[1] # returned[2]
  /\ returned[2] # returned[3]

\* C3: enqueue_packet on a full queue returns 0 and dequeue_packet on an
\* empty queue returns NULL, and neither changes front, rear, fullness,
\* bfullness, sfullness or any slot.
C3_FailingCallChangesNothing ==
  [][ /\ (qop' = "enqueue" /\ (Q.rear + 1) % Q.buffer_size = Q.front)
          => (qret' = 0 /\ Q' = Q)
      /\ (qop' = "dequeue" /\ Q.front = Q.rear)
          => (qret' = NULL /\ Q' = Q)
      /\ (qop' = "enqueue" /\ qret' = 0) => Q' = Q
      /\ (qop' = "dequeue" /\ qret' = NULL) => Q' = Q
    ]_vars

\* an enqueue failed on a full queue that had been emptied before
C3_Witness ==
  /\ qop = "enqueue"
  /\ qret = 0
  /\ (Q.rear + 1) % Q.buffer_size = Q.front
  /\ Len(returned) > 0
  /\ Q.sfullness > 0

\* C4: read_packet on a queue that is not empty returns the packet the
\* dequeue_packet that follows it returns, and changes nothing; on an empty
\* queue it returns NULL.
C4_PeekIsNextDequeue ==
  [][ /\ (qop' = "read" /\ Q.front = Q.rear) => qret' = NULL
      /\ qop' = "read" => Q' = Q
      /\ (qop = "read" /\ qop' = "dequeue" /\ Q.front # Q.rear) => qret' = qret
    ]_vars

(***************************************************************************)
(* The backward-congestion state machine (main)                            *)
(***************************************************************************)
\* C5: while trigger_seq is set, a packet read from the tap whose sequence
\* number is trigger_seq is not enqueued and Qtap is left as it was; and the
\* packet whose read arms the machine is itself enqueued in Qtap.
C5_Suppression ==
  [][ pc = "tap_in" =>
        /\ (trigger_seq # Unset /\ getTCPSeq(ev'.pkt.data) = trigger_seq)
              => (~ev'.enq /\ Qtap' = Qtap)
        /\ (in_backward_cc = -1 /\ in_backward_cc' = -2)
              => (ev'.enq /\ Qtap'.arr[Qtap'.rear] = ev'.pkt)
    ]_vars

\* C6: in_backward_cc leaves -1 only for -2, only in the tap read handler,
\* only when the packet read was enqueued and Qtap.fullness is then above
\* the high water mark, and trigger_seq is then the sequence number of that
\* packet; with Qtap.fullness at most the mark after the read it stays -1.
C6_Arming ==
  [][ /\ (in_backward_cc = -1 /\ in_backward_cc' # -1)
            => /\ pc = "tap_in"
               /\ in_backward_cc' = -2
               /\ ev'.enq
               /\ Qtap'.fullness = Qtap.fullness + 1
               /\ Qtap'.fullness > HighWater
               /\ trigger_seq' = getTCPSeq(ev'.pkt.data)
      /\ (pc = "tap_in" /\ in_backward_cc = -1 /\ Qtap'.fullness <= HighWater)
            => in_backward_cc' = -1
    ]_vars

\* C7: in_backward_cc goes from a round (>= 1) to -1 on, and only on, a
\* packet dequeued from Qsock that has the ACK flag and an ACK number at or
\* above trigger_seq; that packet is written to the tap as it is, dupack is
\* freed, trigger_seq and pkt_count are cleared, and a tap packet with the
\* old trigger sequence is enqueued again when Qtap has room.
C7_EpisodeEnd ==
  [][ /\ (in_backward_cc >= 1 /\ in_backward_cc' = -1)
            => /\ pc = "tap_out"
               /\ ev'.pkt # NULL
               /\ ev'.pkt.data.ack = 1
               /\ UGe(ev'.pkt.data.ack_seq, trigger_seq)
               /\ ev'.tapw = <<Write(ev'.pkt.data, ev'.pkt.length)>>
               /\ ev'.freed = <<dupack>>
               /\ trigger_seq' = Unset
               /\ pkt_count' = 0
      /\ (/\ pc = "tap_out"
          /\ in_backward_cc >= 1
          /\ Qsock.front # Qsock.rear
          /\ Slots(Qsock)[1].data.ack = 1
          /\ UGe(Slots(Qsock)[1].data.ack_seq, trigger_seq))
            => in_backward_cc' = -1
      /\ (/\ pc = "tap_in"
          /\ in_backward_cc = -1
          /\ (Qtap.rear + 1) % Qtap.buffer_size # Qtap.front)
            => ev'.enq
    ]_vars

\* the dup-ACKs C8 asks of a burst in round r for the packet dequeued
C8_Expected(r, packet) ==
  [i \in 1 .. pkt_count |->
     [ kind |-> "dupack",
       id |-> (dupack.data.id + (r - 1) * pkt_count + i) % 65536,
       sts |-> packet.data.sts,
       n |-> dupack.length, src |-> dupack,
       plus |-> (r - 1) * pkt_count + (i - 1) + 1,
       timestamp |-> packet.data.sts ]]

\* what C8 looks at in the writes of a tap output handler
C8_Written(tapw) ==
  [i \in 1 .. Len(tapw) |->
     IF tapw[i].kind = "dupack"
       THEN [ kind |-> "dupack", id |-> tapw[i].data.id, sts |-> tapw[i].data.sts,
              n |-> tapw[i].n, src |-> tapw[i].src, plus |-> tapw[i].plus,
              timestamp |-> tapw[i].timestamp ]
       ELSE tapw[i]]

C9_Pacing ==
  /\ gapSock # NONE => gapSock >= T
  /\ gapTap # NONE => gapTap >= T

\* both directions have had two output events
C9_Witness ==
  /\ gapSock # NONE
  /\ gapTap # NONE
  /\ sinceSockOk = 0

\* C10 as stated: the output handler that dequeues the last packet of a
\* queue disables that queue's output deadline in the same iteration.
C10_DisabledWithLastPacket ==
  [][ /\ (pc = "sock_out" /\ Qtap.fullness = 1) => qtap_next_pkt_out' = NONE
      /\ (pc = "tap_out" /\ Qsock.fullness = 1) => qsock_next_pkt_out' = NONE
    ]_vars

\* C10: an output handler disables the queue's output deadline when, and only
\* when, its dequeue_packet finds the queue empty; a handler that dequeues a
\* packet, the last one included, leaves the deadline io_timeout set.
C10_DisabledWhenFoundEmpty ==
  [][ /\ pc = "sock_out"
            => qtap_next_pkt_out' = IF Qtap.front = Qtap.rear THEN NONE
                                    ELSE qtap_next_pkt_out
      /\ pc = "tap_out"
            => qsock_next_pkt_out' = IF Qsock.front = Qsock.rear THEN NONE
                                     ELSE qsock_next_pkt_out
      /\ (pc = "sock_out" /\ Qtap.fullness = 1) => qtap_next_pkt_out' = T
      /\ (pc = "tap_out" /\ Qsock.fullness = 1) => qsock_next_pkt_out' = T
    ]_vars

\* the socket output handler found Qtap empty after packets had gone through
C10_Witness ==
  /\ ev.h = "sock_out"
  /\ ev.pkt = NULL
  /\ qtap_next_pkt_out = NONE
  /\ ntap > 0
  /\ Qtap.rear # 0

\* the flags of io_timeout: input ready, and output
InFlags == {"FDTAP_IN_RDY", "FDSOCK_IN_RDY"}
OutFlags == {"FDTAP_OUT_OK", "FDSOCK_OUT_OK", "FDTAP_OUT_OVERRUN", "FDSOCK_OUT_OVERRUN"}

\* C11: the flags io_timeout returns never hold an input-ready flag together
\* with an output flag, and hold at most one output flag.
C11_OutputOnlyOnTimeout ==
  /\ (j \cap InFlags = {}) \/ (j \cap OutFlags = {})
  /\ Cardinality(j \cap OutFlags) <= 1

\* an output flag was returned after both descriptors had delivered packets
C11_Witness ==
  /\ j = {"FDTAP_OUT_OK"}
  /\ pc = "tap_out"
  /\ ntap > 0
  /\ nsock > 1
  /\ qtap_next_pkt_out # NONE

(***************************************************************************)
(* Reads that are not TCP segments, and what is written to the tap         *)
(***************************************************************************)
\* C12: when the read from the socket returns 0 (end of file), nothing is
\* enqueued in Qsock for it and the loop ends: no handler and no io_timeout
\* runs after it.
C12_EofEndsLoop ==
  [][ (pc = "sock_in" /\ ev'.pkt.length = 0)
        => (~ev'.enq /\ Qsock' = Qsock /\ pc' = "halted")
    ]_vars

\* C13: a tap packet that is not TCP never arms the machine, leaves
\* trigger_seq as it was, and is enqueued in Qtap unless Qtap is full.
C13_NonTcpPassesThrough ==
  [][ (pc = "tap_in" /\ ev'.pkt.data.protocol # 6)
        => /\ in_backward_cc' = in_backward_cc
           /\ trigger_seq' = trigger_seq
           /\ ev'.enq \/ (Qtap.rear + 1) % Qtap.buffer_size = Qtap.front
    ]_vars

\* C14: every packet dequeued from Qsock is written to the tap as it is,
\* except in a round (in_backward_cc >= 1) when its ACK number is below
\* trigger_seq, where the dup-ACK burst is written instead; a packet that is
\* not a pure ACK, dequeued while the template is awaited, is written too.
C14_DequeuedIsWritten ==
  [][ (pc = "tap_out" /\ Qsock.front # Qsock.rear)
        => LET packet == Slots(Qsock)[1] IN
           /\ ev'.pkt = packet
           /\ IF /\ in_backward_cc >= 1
                 /\ packet.data.ack = 1
                 /\ ~UGe(packet.data.ack_seq, trigger_seq)
                THEN \A k \in 1 .. Len(ev'.tapw) : ev'.tapw[k].kind = "dupack"
                ELSE ev'.tapw = <<Write(packet.data, packet.length)>>
    ]_vars

(***************************************************************************)
(* process_pkt.c                                                           *)
(***************************************************************************)
\* C15: CheckPureTCPAck returns 1 exactly when protocol is 6, ACK is 1, URG,
\* PSH, RST, SYN and FIN are 0 and tot_len - ihl*4 - doff*4 is 0, and
\* returns 0 for every other packet, every non-TCP packet included.
C15_PureAck ==
  call.fn = "CheckPureTCPAck" =>
    /\ result \in {0, 1}
    /\ (result = 1) <=>
          /\ given.protocol = 6
          /\ given.ack = 1
          /\ given.urg = 0 /\ given.psh = 0 /\ given.rst = 0
          /\ given.syn = 0 /\ given.fin = 0
          /\ given.tot_len - given.ihl * 4 - given.doff * 4 = 0

\* a pure ACK behind IP options was classified
C15_Witness ==
  /\ call.fn = "CheckPureTCPAck"
  /\ result = 1
  /\ given.ihl = 6
  /\ given.tot_len = 44

RECURSIVE C17_Fold(_)
C17_Fold(x) == IF x < 65536 THEN x ELSE C17_Fold((x \div 65536) + (x % 65536))

RECURSIVE C17_Sum(_)
C17_Sum(words) == IF words = <<>> THEN 0 ELSE Head(words) + C17_Sum(Tail(words))

C17_InternetChecksum(words) == 65535 - C17_Fold(C17_Sum(words))

\* the TCP pseudo header of a packet (RFC 793)
C17_PseudoHeader(h) ==
  << Hi16(h.saddr), Lo16(h.saddr), Hi16(h.daddr), Lo16(h.daddr),
     h.protocol, h.tot_len - h.ihl * 4 >>

\* C17: both checksums of the packet create_dupack returns verify: the
\* Internet checksum over its IPv4 header, check in place, is 0, and so is the
\* one over pseudo header, TCP header and Timestamp option, tcp check in place.
C17_DupackChecksums ==
  call.fn = "create_dupack" =>
    /\ C17_InternetChecksum(IpWords(result)) = 0
    /\ C17_InternetChecksum(C17_PseudoHeader(result) \o TcpWords(result)
                               \o TsWords(result)) = 0

\* a dup-ACK was made whose two checksums are not trivial
C17_Witness ==
  /\ call.fn = "create_dupack"
  /\ result.check \notin {0, 65535}
  /\ result.tcp_check \notin {0, 65535}
  /\ result.check # given.check
  /\ call.plus = 65539
  /\ call.timestamp = 305419896

\* C18: a header whose check field was set to 0 and then to csum(header,
\* ihl*4) has csum(header, ihl*4) = 0.
C18_CsumRoundTrip ==
  call.fn = "csum" => result = 0

\* the round trip was made on a header with options
C18_Witness ==
  /\ call.fn = "csum"
  /\ call.nbytes = 24
  /\ call.header[6] \notin {0, 65535}
  /\ result = 0

(***************************************************************************)
(* The timeout of a tick and the output event it ends in                   *)
(***************************************************************************)
SockOutFlags == {"FDSOCK_OUT_OK", "FDSOCK_OUT_OVERRUN"}
TapOutFlags == {"FDTAP_OUT_OK", "FDTAP_OUT_OVERRUN"}

\* C19: with no deadline set io_timeout waits without a timeout, so it returns
\* input flags only; with one deadline set the timeout is the time left to it
\* and the output flag is of its queue; with both set the timeout is the
\* smaller of the two times left (neither below 0) and the output flag is of
\* the queue whose deadline is not the later one.
C19_TimeoutSelection ==
  [][ pc = "io_timeout" =>
        LET qt == qtap_next_pkt_out
            qs == qsock_next_pkt_out
        IN
        /\ (qt = NONE /\ qs = NONE) =>
              /\ use_null_timeout(qt, qs)
              /\ j' \cap OutFlags = {}
              /\ j' \cap InFlags # {}
        /\ (qt # NONE /\ qs = NONE) =>
              /\ ~use_null_timeout(qt, qs)
              /\ Timeout(qt, qs) = qt
              /\ Which(qt, qs) = 1
              /\ j' \cap TapOutFlags = {}
        /\ (qt = NONE /\ qs # NONE) =>
              /\ ~use_null_timeout(qt, qs)
              /\ Timeout(qt, qs) = qs
              /\ Which(qt, qs) = 2
              /\ j' \cap SockOutFlags = {}
        /\ (qt # NONE /\ qs # NONE) =>
              /\ ~use_null_timeout(qt, qs)
              /\ Timeout(qt, qs) = Min(qt, qs)
              /\ Timeout(qt, qs) >= 0
              /\ Which(qt, qs) = 1 => qt <= qs
              /\ Which(qt, qs) = 2 => qs <= qt
              /\ j' \cap SockOutFlags # {} => qt <= qs
              /\ j' \cap TapOutFlags # {} => qs <= qt
        \* the wait has lasted to the deadline when an output flag is returned
        /\ j' \cap SockOutFlags # {} => qs = NONE \/ qsock_next_pkt_out' <= qs - qt
        /\ j' \cap TapOutFlags # {} => qt = NONE \/ qtap_next_pkt_out' <= qt - qs
    ]_vars

\* both deadlines were set, that of Qtap the nearer, and the tick ended in the
\* output event of Qtap
C19_Witness ==
  /\ pc = "sock_out"
  /\ j = {"FDSOCK_OUT_OK"}
  /\ qtap_next_pkt_out = T
  /\ qsock_next_pkt_out # NONE
  /\ qsock_next_pkt_out < T

Phase(cc) ==
  CASE cc = -1 -> "IDLE"
    [] cc = -2 -> "ARMED"
    [] cc = -3 -> "COUNTING"
    [] OTHER   -> "ACTIVE"

\* C21: the phase changes only from IDLE to ARMED, from ARMED to COUNTING, from
\* COUNTING to ACTIVE and from ACTIVE to IDLE; it leaves IDLE only in the tap
\* read handler, ARMED only in a tap output handler that dequeued a packet
\* from Qsock and wrote it to the tap, and COUNTING only in a tap output
\* handler, which is not the one that entered COUNTING.
C21_PhaseCycle ==
  [][ LET a == Phase(in_backward_cc)
          b == Phase(in_backward_cc')
      IN  a # b =>
            /\ <<a, b>> \in { <<"IDLE", "ARMED">>, <<"ARMED", "COUNTING">>,
                              <<"COUNTING", "ACTIVE">>, <<"ACTIVE", "IDLE">> }
            /\ a = "IDLE" => pc = "tap_in"
            /\ a = "ARMED" =>
                  /\ pc = "tap_out"
                  /\ ev'.pkt # NULL
                  /\ ev'.pkt = Slots(Qsock)[1]
                  /\ ev'.tapw = <<Write(ev'.pkt.data, ev'.pkt.length)>>
            /\ a = "COUNTING" => pc = "tap_out"
            /\ a = "ACTIVE" => pc = "tap_out"
    ]_vars

\* an episode went through all the phases and ended
C21_Witness ==
  /\ ev.h = "tap_out"
  /\ ev.br = "last"
  /\ in_backward_cc = -1
  /\ ev.pkt = AckHigh
  /\ ntap > 1

\* C22: while the template is awaited (in_backward_cc -3 or 0 at a tap output
\* slot), a pure ACK dequeued from Qsock becomes dupack, is written to the tap
\* as it is and makes in_backward_cc 1; no dup-ACK is written before that;
\* and from round to round dupack stays the packet it was, the dup-ACKs being
\* made from it.
C22_Template ==
  [][ /\ (pc = "tap_out" /\ in_backward_cc \in {-3, 0} /\ Qsock.front # Qsock.rear
             /\ CheckPureTCPAck(Slots(Qsock)[1].data) = 1)
            => /\ dupack' = Slots(Qsock)[1]
               /\ ev'.tapw = <<Write(dupack'.data, dupack'.length)>>
               /\ in_backward_cc' = 1
      /\ (pc = "tap_out" /\ in_backward_cc < 1)
            => \A i \in 1 .. Len(ev'.tapw) : ev'.tapw[i].kind # "dupack"
      /\ pc = "tap_out"
            => \A i \in 1 .. Len(ev'.tapw) :
                  ev'.tapw[i].kind = "dupack" => ev'.tapw[i].src = dupack
      /\ (in_backward_cc >= 1 /\ in_backward_cc' >= 1) => dupack' = dupack
      /\ dupack' # dupack => pc = "tap_out" /\ ev'.br \in {"template", "last"}
    ]_vars

\* a pure ACK that does not cover the trigger was dequeued in a round whose
\* template is another pure ACK, and dup-ACKs were made from the template
C22_Witness ==
  /\ ev.h = "tap_out"
  /\ ev.br = "burst"
  /\ ev.pkt = AckLow
  /\ dupack = AckHigh
  /\ Len(ev.tapw) > 0
  /\ in_backward_cc >= 2

(***************************************************************************)
(* Ownership of the packet buffers                                         *)
(***************************************************************************)
\* the buffers malloc gave a handler for the packets it read
C23_Allocated(e) == IF e.h \in {"tap_in", "sock_in"} THEN 1 ELSE 0

\* the packet buffers a handler gave to free
C23_Released(e) ==
  CASE e.h \in {"tap_in", "sock_in"}   -> (IF e.freed THEN 1 ELSE 0)
    [] e.h \in {"tap_out", "sock_out"} -> Len(e.freed)
    [] OTHER                           -> 0

\* the packet buffers the loop still refers to: those in the two queues and
\* the template
C23_Held(qtap, qsock, template) ==
  Len(Slots(qtap)) + Len(Slots(qsock)) + (IF template = NULL THEN 0 ELSE 1)

\* C23: every packet buffer read by the loop is released exactly once, so
\* after every handler the buffers allocated and not released are the
\* packets in Qtap and Qsock and the template: each handler changes their
\* number by what it allocated less what it released.
C23_Ownership ==
  [][ C23_Held(Qtap', Qsock', dupack') - C23_Held(Qtap, Qsock, dupack)
        = C23_Allocated(ev') - C23_Released(ev')
    ]_vars

\* C24: every fabricated dup-ACK is written to the tap with the size it was
\* allocated with, DupackSize bytes, whatever the length of the template, and
\* its buffer is released by the handler that wrote it.
C24_DupackWrittenInFull ==
  [][ pc = "tap_out" =>
        \A i \in 1 .. Len(ev'.tapw) :
          ev'.tapw[i].kind = "dupack" =>
            /\ ev'.tapw[i].n = DupackSize
            /\ \E k \in 1 .. Len(ev'.freed) : ev'.freed[k] = ev'.tapw[i].data
    ]_vars

(***************************************************************************)
(* Deadlines and queues                                                    *)
(***************************************************************************)
\* C25: when an iteration of the loop is over, a queue that holds a packet
\* has its output deadline set, whatever in_backward_cc is.
C25_NoStrandedPackets ==
  pc = "io_timeout" =>
    /\ Qtap.front # Qtap.rear => qtap_next_pkt_out # NONE
    /\ Qsock.front # Qsock.rear => qsock_next_pkt_out # NONE

\* both queues hold packets in a round of an episode, after a dequeue from
\* each of them
C25_Witness ==
  /\ pc = "io_timeout"
  /\ in_backward_cc >= 1
  /\ Qtap.front # Qtap.rear
  /\ Qsock.front # Qsock.rear
  /\ Qtap.front # 0
  /\ Qsock.front # 0
  /\ ev.h = "tap_out"

(***************************************************************************)
(* The unset value of trigger_seq and the packet read after free           *)
(***************************************************************************)
\* C26: with in_backward_cc -1 and trigger_seq unset, a packet read from the
\* tap is enqueued in Qtap whenever Qtap has room, whatever its sequence
\* number; and whenever in_backward_cc is not -1, trigger_seq is not the unset
\* value.
C26_UnsetIsNoSequence ==
  /\ [](in_backward_cc # -1 => trigger_seq # Unset)
  /\ [][ (/\ pc = "tap_in"
          /\ in_backward_cc = -1
          /\ trigger_seq = Unset
          /\ (Qtap.rear + 1) % Qtap.buffer_size # Qtap.front)
            => (ev'.enq /\ Qtap'.arr[Qtap'.rear] = ev'.pkt)
      ]_vars

\* C27: the tap read handler does not read the packet after it has freed it:
\* a read whose packet was freed, as the retransmission or because Qtap was
\* full, does not arm the machine, and trigger_seq is taken only from a
\* packet that is in Qtap.
C27_NoReadAfterFree ==
  [][ pc = "tap_in" =>
        /\ ev'.freed => (~ev'.armed /\ trigger_seq' = trigger_seq)
        /\ trigger_seq' # trigger_seq =>
              (ev'.enq /\ trigger_seq' = Qtap'.arr[Qtap'.rear].data.seq)
    ]_vars

(***************************************************************************)
(* The end of an episode                                                   *)
(***************************************************************************)
\* C28: an episode ends when the socket delivers what ends it: at a tap
\* output slot in a round (in_backward_cc >= 1), a pure ACK at the front of
\* Qsock whose ACK number is at or above trigger_seq takes in_backward_cc
\* back to -1, whatever trigger_seq is; so an episode in which such ACKs keep
\* coming does not last.
C28_CoveringAckEnds ==
  [][ (/\ pc = "tap_out"
       /\ in_backward_cc >= 1
       /\ Qsock.front # Qsock.rear
       /\ CheckPureTCPAck(Slots(Qsock)[1].data) = 1
       /\ UGe(getACKSeq(Slots(Qsock)[1].data), trigger_seq))
        => (in_backward_cc' = -1 /\ trigger_seq' = Unset)
    ]_vars

(***************************************************************************)
(* An overrun on one side and the output of the other                      *)
(***************************************************************************)
\* C29: when Qtap holds a packet, its deadline is due, no input arrives any
\* more and the socket is ready for writing, FDSOCK_OUT_OK is returned at some
\* later iteration and the socket output handler runs, also when the deadline
\* of Qsock is due and the tap is never ready for writing.
C29_NoStarvation ==
  (/\ pc = "io_timeout"
   /\ Qtap.front # Qtap.rear
   /\ qtap_next_pkt_out = 0
   /\ ntap = MaxTapReads
   /\ nsock = MaxSockReads)
    ~> (pc = "sock_out" /\ "FDSOCK_OUT_OK" \in j)

(***************************************************************************)
(* The count of tap packets                                                *)
(***************************************************************************)
\* C30: in a round of an episode (in_backward_cc >= 1) pkt_count is at least
\* 1, so a burst writes at least one dup-ACK to the tap; pkt_count changes by
\* one for a packet read from the tap while in_backward_cc is -3, is cleared
\* when the episode ends, and does not change otherwise.
C30_CountedBeforeRounds ==
  /\ [](in_backward_cc >= 1 => pkt_count >= 1)
  /\ [][ /\ (pc = "tap_out" /\ ev'.br = "burst") => Len(ev'.tapw) >= 1
         /\ pkt_count' # pkt_count =>
               \/ (pc = "tap_in" /\ in_backward_cc = -3
                     /\ pkt_count' = pkt_count + 1)
               \/ (pc = "tap_out" /\ in_backward_cc >= 1
                     /\ in_backward_cc' = -1 /\ pkt_count' = 0)
     ]_vars

(***************************************************************************)
(* The size of a packet buffer                                             *)
(***************************************************************************)
\* C31: every packet in Qtap and in Qsock has a length from 0 to
\* DataCapacity, and no read of the tap or of the socket puts more than
\* DataCapacity bytes into the packet it fills.
C31_LengthWithinBuffer ==
  /\ [](\A q \in {Qtap, Qsock} : \A i \in 1 .. Len(Slots(q)) :
          Slots(q)[i].length \in 0 .. DataCapacity)
  /\ [][ (pc = "tap_in" \/ pc = "sock_in") => ev'.pkt.length <= DataCapacity ]_vars

====
